---- MODULE Spec2Model ----
(***************************************************************************)
(* react-routing-demo: a BrowserRouter around a persistent Navbar and a    *)
(* route table (AppRoutes); Home lists posts through PostList, whose links *)
(* lead to PostDetail, which reads the URL parameter (useParams) and the   *)
(* navigation payload (useLocation().state).                               *)
(*                                                                         *)
(* Paths and patterns are strings and are split, compared and built        *)
(* character by character.  The route matcher and the active-link rule are *)
(* the routing library's; its code is not part of the repository's files,  *)
(* so they are written from sections 4.1 and 4.2 of the specification.     *)
(***************************************************************************)
EXTENDS Integers, Sequences, FiniteSets

VARIABLES
  location,      \* BrowserRouter's current location: [path, state]
  view,          \* the rendered tree: shell, mounted handler, what it reads
  lastNav,       \* the navigation action that produced location
  prev,          \* the location that action replaced
  twinLocation,  \* a second run fed other posts, used by PairSpec only
  twinView

vars == <<location, view, lastNav, prev, twinLocation, twinView>>

----------------------------------------------------------------------------
(* Data written in the repository.                                         *)

(* location.state when the navigation attached nothing; a payload p is the *)
(* one-element sequence <<p>>.                                             *)
NoState == <<>>

(* Home.js: const posts = [...]                                            *)
HomePosts ==
  << [id |-> 1, title |-> "First Post",  content |-> "This is the first post."],
     [id |-> 2, title |-> "Second Post", content |-> "This is the second post."],
     [id |-> 3, title |-> "Third Post",  content |-> "This is the third post."] >>

(* The posts of a second run: the same ids and targets, other payloads.    *)
TwinPosts ==
  << [id |-> 1, title |-> "Uno",  content |-> "a"],
     [id |-> 2, title |-> "Dos",  content |-> "b"],
     [id |-> 3, title |-> "Tres", content |-> "c"] >>

(* Routes.js without its trailing catch-all route.                         *)
AppRoutesNoWildcard ==
  << [path |-> "/",          element |-> "Home"],
     [path |-> "/about",     element |-> "About"],
     [path |-> "/contact",   element |-> "Contact"],
     [path |-> "/posts/:id", element |-> "PostDetail"] >>

(* Routes.js with the catch-all route registered first.                    *)
AppRoutesWildcardFirst ==
  << [path |-> "*",          element |-> "NotFound"],
     [path |-> "/",          element |-> "Home"],
     [path |-> "/about",     element |-> "About"],
     [path |-> "/contact",   element |-> "Contact"],
     [path |-> "/posts/:id", element |-> "PostDetail"] >>

(* Routes.js as first written in the README, before the detail route.      *)
AppRoutesNoDetail ==
  << [path |-> "/",        element |-> "Home"],
     [path |-> "/about",   element |-> "About"],
     [path |-> "/contact", element |-> "Contact"],
     [path |-> "*",        element |-> "NotFound"] >>

(* Routes.js: the <Route path element> children of <Routes>, in order.     *)
AppRoutes ==
  << [path |-> "/",          element |-> "Home"],
     [path |-> "/about",     element |-> "About"],
     [path |-> "/contact",   element |-> "Contact"],
     [path |-> "/posts/:id", element |-> "PostDetail"],
     [path |-> "*",          element |-> "NotFound"] >>

(* Navbar.js with a state prop on the About link.                          *)
NavbarWithState ==
  << [to |-> "/",        end |-> FALSE, state |-> NoState],
     [to |-> "/about",   end |-> FALSE, state |-> <<HomePosts[1]>>],
     [to |-> "/contact", end |-> FALSE, state |-> NoState] >>

(* Navbar.js: three NavLinks, none with a state prop or an exact-match     *)
(* prop.                                                                   *)
Navbar ==
  << [to |-> "/",        end |-> FALSE, state |-> NoState],
     [to |-> "/about",   end |-> FALSE, state |-> NoState],
     [to |-> "/contact", end |-> FALSE, state |-> NoState] >>

----------------------------------------------------------------------------
(* Strings.                                                                *)

Digit(d) == SubSeq("0123456789", d + 1, d + 1)

(* `${post.id}`: the decimal form of a non-negative integer.               *)
RECURSIVE ToString(_)
ToString(n) == IF n < 10 THEN Digit(n) ELSE ToString(n \div 10) \o Digit(n % 10)

CharAt(s, i) == IF i >= 1 /\ i <= Len(s) THEN SubSeq(s, i, i) ELSE ""

(* Position of the first c in s, 0 when there is none.                     *)
IndexOf(s, c) ==
  IF \E i \in 1..Len(s) : CharAt(s, i) = c
  THEN CHOOSE i \in 1..Len(s) :
         CharAt(s, i) = c /\ \A j \in 1..(i - 1) : CharAt(s, j) # c
  ELSE 0

(* s split into its "/"-delimited segments: "/posts/2" is "", "posts", "2" *)
RECURSIVE Split(_)
Split(s) ==
  LET i == IndexOf(s, "/")
  IN  IF i = 0 THEN <<s>>
      ELSE <<SubSeq(s, 1, i - 1)>> \o Split(SubSeq(s, i + 1, Len(s)))

StartsWith(s, prefix) ==
  Len(prefix) <= Len(s) /\ SubSeq(s, 1, Len(prefix)) = prefix

----------------------------------------------------------------------------
(* Route matching (specification, section 4.1).                            *)

IsWildcard(seg) == seg = "*"

IsParam(seg) == Len(seg) > 0 /\ Head(seg) = ":"

ParamName(seg) == Tail(seg)

(* A literal segment equals the path's segment exactly; a parameter        *)
(* segment matches unconditionally.                                        *)
SegmentMatches(patSeg, pathSeg) == IsParam(patSeg) \/ patSeg = pathSeg

(* Equal segment counts, unless the pattern ends in a wildcard segment,    *)
(* which matches any remaining suffix.                                     *)
PatternMatches(pattern, path) ==
  LET pat == Split(pattern)
      seg == Split(path)
  IN  IF IsWildcard(pat[Len(pat)])
      THEN /\ Len(seg) >= Len(pat) - 1
           /\ \A i \in 1..(Len(pat) - 1) : SegmentMatches(pat[i], seg[i])
      ELSE /\ Len(seg) = Len(pat)
           /\ \A i \in 1..Len(pat) : SegmentMatches(pat[i], seg[i])

(* Each parameter segment's name bound to the path segment's value.        *)
Params(pattern, path) ==
  LET pat == Split(pattern)
      seg == Split(path)
      at  == {i \in 1..Len(pat) : IsParam(pat[i])}
  IN  [name \in {ParamName(pat[i]) : i \in at} |->
         seg[CHOOSE i \in at : ParamName(pat[i]) = name]]

Matching(routes, path) ==
  {i \in 1..Len(routes) : PatternMatches(routes[i].path, path)}

(* First matching Route wins.                                              *)
Selected(routes, path) ==
  {i \in Matching(routes, path) : \A j \in Matching(routes, path) : i <= j}

(* The Match Result; with no matching Route nothing is rendered.           *)
Match(routes, path) ==
  IF Selected(routes, path) = {}
  THEN [route |-> 0, handler |-> "none", params |-> <<>>]
  ELSE LET i == CHOOSE k \in Selected(routes, path) : TRUE
       IN  [route   |-> i,
            handler |-> routes[i].element,
            params  |-> Params(routes[i].path, path)]

----------------------------------------------------------------------------
(* Active links (specification, section 4.2).                              *)

(* Exact-match mode: full equality.  Default: the target is a prefix of    *)
(* the current path ending at a segment boundary.                          *)
IsActive(to, path, end) ==
  \/ path = to
  \/ /\ ~end
     /\ StartsWith(path, to)
     /\ \/ CharAt(to, Len(to)) = "/"
        \/ CharAt(path, Len(to) + 1) = "/"

----------------------------------------------------------------------------
(* Components.                                                             *)

(* PostList.js with the list position used for the target instead of the   *)
(* post's id.                                                              *)
PostListByIndex(posts) ==
  [i \in 1..Len(posts) |->
     [to |-> "/posts/" \o ToString(i - 1), state |-> <<posts[i]>>]]

(* PostList.js with the target built from the post's title.                *)
PostListByTitle(posts) ==
  [i \in 1..Len(posts) |->
     [to |-> "/posts/" \o posts[i].title, state |-> <<posts[i]>>]]

(* PostList.js with the state prop left off the Link.                      *)
PostListNoState(posts) ==
  [i \in 1..Len(posts) |->
     [to |-> "/posts/" \o ToString(posts[i].id), state |-> NoState]]

(* PostList.js: posts.map(post => <Link to={`/posts/${post.id}`}           *)
(* state={post}>)                                                          *)
PostList(posts) ==
  [i \in 1..Len(posts) |->
     [to |-> "/posts/" \o ToString(posts[i].id), state |-> <<posts[i]>>]]

(* useParams().id; a property that is not there reads as undefined.        *)
ParamId(params) ==
  IF "id" \in DOMAIN params THEN params["id"] ELSE "undefined"

(* PostDetail.js: useLocation().state.title is read unguarded, and reading *)
(* a property of a null state throws.                                      *)
PostDetail(params, state) ==
  IF state = NoState
  THEN [threw |-> TRUE, body |-> <<>>]
  ELSE [threw |-> FALSE,
        body  |-> <<"param: " \o ParamId(params),
                    "state: " \o state[1].title>>]

(* The element of the selected Route.                                      *)
Element(handler, params, state, posts) ==
  CASE handler = "PostDetail" -> PostDetail(params, state)
    [] handler = "Home" ->
         [threw |-> FALSE,
          body  |-> <<"Home Page", "Blog Posts">>
                    \o [i \in 1..Len(posts) |-> posts[i].title]]
    [] OTHER -> [threw |-> FALSE, body |-> <<>>]

(* What is left once a render has thrown: App has no error boundary, so    *)
(* the whole tree is unmounted, Navbar included.                           *)
Unmounted ==
  [status |-> "crashed", shell |-> FALSE, handler |-> "none",
   params |-> <<>>, body |-> <<>>, active |-> {}, links |-> <<>>]

(* App.js: <Navbar /> above <AppRoutes />, inside <BrowserRouter>.         *)
Render(path, state, posts) ==
  LET m  == Match(AppRoutes, path)
      el == Element(m.handler, m.params, state, posts)
  IN  IF el.threw THEN Unmounted
      ELSE [status  |-> "rendered",
            shell   |-> TRUE,
            handler |-> m.handler,
            params  |-> m.params,
            body    |-> el.body,
            active  |-> {i \in 1..Len(Navbar) :
                           IsActive(Navbar[i].to, path, Navbar[i].end)},
            links   |-> IF m.handler = "Home" THEN PostList(posts) ELSE <<>>]

----------------------------------------------------------------------------
(* Inputs.                                                                 *)

(* Paths typed into the address bar.                                       *)
Paths ==
  {"/", "/about", "/about/x", "/aboutx", "/contact", "/posts", "/posts/",
   "/posts/1", "/posts/2", "/posts/3", "/posts/42", "/posts/x",
   "/posts/2/edit", "/unknown/x", "/About"}

(* Values substituted for a parameter segment.                             *)
ParamValues == {"1", "2", "3", "42", "x"}

----------------------------------------------------------------------------
(* Navigation.                                                             *)

(* The location changes and the tree is rendered for it.                   *)
Go(kind, to, state) ==
  /\ location' = [path |-> to, state |-> state]
  /\ view' = Render(to, state, HomePosts)
  /\ lastNav' = [kind |-> kind, to |-> to, state |-> state]
  /\ prev' = location

TwinGo(to, state) ==
  /\ twinLocation' = [path |-> to, state |-> state]
  /\ twinView' = Render(to, state, TwinPosts)

(* The page is loaded at path p: nothing is attached to the location.      *)
Load(p) ==
  /\ location = [path |-> p, state |-> NoState]
  /\ view = Render(p, NoState, HomePosts)
  /\ lastNav = [kind |-> "direct", to |-> p, state |-> NoState]
  /\ prev = [path |-> p, state |-> NoState]

TwinLoad(p) ==
  /\ twinLocation = [path |-> p, state |-> NoState]
  /\ twinView = Render(p, NoState, TwinPosts)

Init == \E p \in Paths : Load(p) /\ TwinLoad("/")

(* Direct path entry: the app is loaded afresh at p.                       *)
EnterPath(p) ==
  /\ Go("direct", p, NoState)
  /\ UNCHANGED <<twinLocation, twinView>>

(* A NavLink of the Navbar is activated.                                   *)
ClickNavLink(i) ==
  /\ view.shell
  /\ Go("navlink", Navbar[i].to, Navbar[i].state)
  /\ UNCHANGED <<twinLocation, twinView>>

(* A Link of the PostList rendered by Home is activated.                   *)
ClickPostLink(i) ==
  /\ i \in DOMAIN view.links
  /\ Go("postlink", view.links[i].to, view.links[i].state)
  /\ UNCHANGED <<twinLocation, twinView>>

Next ==
  \/ \E p \in Paths : EnterPath(p)
  \/ \E i \in 1..Len(Navbar) : ClickNavLink(i)
  \/ \E i \in 1..Len(HomePosts) : ClickPostLink(i)

Spec == Init /\ [][Next]_vars

(* Two runs, fed different posts with the same ids, in which the same      *)
(* path is entered or the same link is activated at every step.            *)
PairInit == \E p \in Paths : Load(p) /\ TwinLoad(p)

PairEnterPath(p) ==
  /\ Go("direct", p, NoState)
  /\ TwinGo(p, NoState)

PairClickNavLink(i) ==
  /\ view.shell
  /\ twinView.shell
  /\ Go("navlink", Navbar[i].to, Navbar[i].state)
  /\ TwinGo(Navbar[i].to, Navbar[i].state)

PairClickPostLink(i) ==
  /\ i \in DOMAIN view.links
  /\ i \in DOMAIN twinView.links
  /\ Go("postlink", view.links[i].to, view.links[i].state)
  /\ TwinGo(twinView.links[i].to, twinView.links[i].state)

PairNext ==
  \/ \E p \in Paths : PairEnterPath(p)
  \/ \E i \in 1..Len(Navbar) : PairClickNavLink(i)
  \/ \E i \in 1..Len(HomePosts) : PairClickPostLink(i)

PairSpec == PairInit /\ [][PairNext]_vars

----------------------------------------------------------------------------
(* What a mounted handler reads.                                           *)

(* useLocation().state of the mounted handler.                             *)
ReadablePayload == IF view.status = "rendered" THEN location.state ELSE NoState

TypeOK ==
  /\ location.path \in STRING
  /\ view.status \in {"rendered", "crashed"}
  /\ lastNav.kind \in {"direct", "navlink", "postlink"}

----------------------------------------------------------------------------
(* Properties.                                                             *)

MatchNow == Match(AppRoutes, location.path)

(* C1: for the route table of Routes.js and every path the location can    *)
(* take, matching selects exactly one Route: never none, never several.    *)
ExactlyOneRouteSelected ==
  /\ Cardinality(Selected(AppRoutes, location.path)) = 1
  /\ MatchNow.route \in 1..Len(AppRoutes)
  /\ MatchNow.handler = AppRoutes[MatchNow.route].element

UnknownPathEntered ==
  /\ location.path = "/unknown/x"
  /\ lastNav.kind = "direct"
  /\ Matching(AppRoutes, location.path) # {}

(* C2: when the location selects PostDetail and carries no payload, the    *)
(* tree ends rendered, never crashed.                                      *)
AbsentPayloadIsRecoverable ==
  (MatchNow.handler = "PostDetail" /\ location.state = NoState)
    => view.status = "rendered"

(* C3: after the PostList link of post p is activated, PostDetail is       *)
(* mounted, the payload it reads is p and its params are {id: p.id as a    *)
(* string}; it shows that id and p's title.                                *)
PayloadRoundTrip ==
  \A i \in 1..Len(HomePosts) :
    LET p == HomePosts[i]
    IN  (lastNav.kind = "postlink" /\ lastNav.to = "/posts/" \o ToString(p.id))
          => /\ view.handler = "PostDetail"
             /\ ReadablePayload = <<p>>
             /\ view.params = [id |-> ToString(p.id)]
             /\ view.body = <<"param: " \o ToString(p.id), "state: " \o p.title>>
             /\ (p.id = 2 => /\ view.params = [id |-> "2"]
                             /\ ReadablePayload[1].title = "Second Post")

SecondPostLinkActivated ==
  /\ lastNav.kind = "postlink"
  /\ location.path = "/posts/2"
  /\ view.handler = "PostDetail"
  /\ prev.path = "/"

RECURSIVE Join(_)
Join(segs) ==
  IF Len(segs) = 1 THEN segs[1] ELSE segs[1] \o "/" \o Join(Tail(segs))

(* The pattern with v substituted for each of its parameter segments.      *)
BuildPath(pattern, v) ==
  LET pat == Split(pattern)
  IN  Join([i \in 1..Len(pat) |-> IF IsParam(pat[i]) THEN v ELSE pat[i]])

ParamNames(pattern) ==
  LET pat == Split(pattern)
  IN  {ParamName(pat[i]) : i \in {k \in 1..Len(pat) : IsParam(pat[k])}}

(* C4: a path built from a non-wildcard Route's pattern by substituting a  *)
(* value for its parameter segments matches that Route and binds exactly   *)
(* that value; /posts/v resolves to PostDetail with params {id: v}.        *)
ParamRoundTrip ==
  /\ \A r \in 1..Len(AppRoutes) : \A v \in ParamValues :
       (~IsWildcard(AppRoutes[r].path)
          /\ location.path = BuildPath(AppRoutes[r].path, v))
         => /\ MatchNow.route = r
            /\ MatchNow.params = [n \in ParamNames(AppRoutes[r].path) |-> v]
  /\ \A v \in ParamValues :
       location.path = "/posts/" \o v
         => /\ MatchNow.handler = "PostDetail"
            /\ MatchNow.params = [id |-> v]

DetailPathMatched ==
  /\ location.path = BuildPath("/posts/:id", "42")
  /\ MatchNow.handler = "PostDetail"
  /\ ParamId(MatchNow.params) = "42"

OtherMatches(path) ==
  {i \in Matching(AppRoutes, path) : ~IsWildcard(AppRoutes[i].path)}

(* C5: the wildcard Route is the selected one exactly when no other Route  *)
(* matches the path, and then params is empty; /unknown/x resolves to      *)
(* NotFound, /posts/42 does not.                                           *)
WildcardIffNoOther ==
  /\ MatchNow.route \in 1..Len(AppRoutes)
  /\ IsWildcard(AppRoutes[MatchNow.route].path)
       <=> OtherMatches(location.path) = {}
  /\ IsWildcard(AppRoutes[MatchNow.route].path)
       => (MatchNow.handler = "NotFound" /\ DOMAIN MatchNow.params = {})
  /\ location.path = "/unknown/x" => view.handler = "NotFound"
  /\ location.path = "/posts/42" => MatchNow.handler # "NotFound"

NotFoundMounted ==
  /\ view.handler = "NotFound"
  /\ OtherMatches(location.path) = {}
  /\ lastNav.kind = "direct"
  /\ prev.path = "/about"

(* C7: the payload the mounted handler reads is the one attached by the    *)
(* navigation that produced the location; it is absent when that was a     *)
(* direct entry or a Navbar link, whatever an earlier navigation attached. *)
PayloadIsLastAttached ==
  /\ location.state = lastNav.state
  /\ lastNav.kind \in {"direct", "navlink"} => ReadablePayload = NoState
  /\ ReadablePayload # NoState
       => /\ lastNav.kind = "postlink"
          /\ \E i \in 1..Len(HomePosts) :
               /\ ReadablePayload = <<HomePosts[i]>>
               /\ location.path = "/posts/" \o ToString(HomePosts[i].id)

EarlierPayloadReplaced ==
  /\ prev.state # NoState
  /\ lastNav.kind = "navlink"
  /\ view.status = "rendered"
  /\ ReadablePayload = NoState

(* C8: the mounted handler and its params are the Match Result of the      *)
(* location's path, and the Navbar stays rendered around it.               *)
MountedIsMatchInsideShell ==
  /\ view.shell
  /\ view.handler = MatchNow.handler
  /\ view.params = MatchNow.params

(* C9: two runs that take the same steps with different payloads agree on  *)
(* the path, the handler, the params and every link's active marking.      *)
PayloadNotObservable ==
  /\ location.path = twinLocation.path
  /\ view.status = twinView.status
  /\ view.shell = twinView.shell
  /\ view.handler = twinView.handler
  /\ view.params = twinView.params
  /\ view.active = twinView.active

PayloadsDiffer ==
  /\ location.state # NoState
  /\ twinLocation.state # NoState
  /\ location.state # twinLocation.state
  /\ view.body # twinView.body

(* C10: whenever PostDetail is mounted with a payload, the bound id        *)
(* parameter is the string form of the payload's id.                       *)
ChannelsAgree ==
  (view.handler = "PostDetail" /\ ReadablePayload # NoState)
    => ParamId(view.params) = ToString(ReadablePayload[1].id)

ThirdPostDetailMounted ==
  /\ view.handler = "PostDetail"
  /\ ReadablePayload = <<HomePosts[3]>>
  /\ ParamId(view.params) = "3"

====
